---- MODULE Spec2Model ----
(***************************************************************************)
(* PII extraction service (src/app.py): the /api/extract handler, the      *)
(* Hugging Face client with its bounded retry loop, and the regex          *)
(* fallback detector.                                                      *)
(*                                                                         *)
(* Conventions.  A text is a sequence of one-character strings; offsets    *)
(* are Python offsets (0-based, end exclusive).  Scores and thresholds are *)
(* integers in hundredths (0.9 is 90).  An optional JSON field is a record *)
(* with a kind ("absent", ...) and, when present, a value v.               *)
(***************************************************************************)
EXTENDS Integers, Sequences, FiniteSets, TLC

(***************************************************************************)
(* Characters and the character classes of the three patterns.             *)
(***************************************************************************)
Digits == {"0", "1", "2", "3", "4", "5", "6", "7", "8", "9"}

Lower == {"a", "b", "c", "d", "e", "f", "g", "h", "i", "j", "k", "l", "m",
          "n", "o", "p", "q", "r", "s", "t", "u", "v", "w", "x", "y", "z"}

Upper == {"A", "B", "C", "D", "E", "F", "G", "H", "I", "J", "K", "L", "M",
          "N", "O", "P", "Q", "R", "S", "T", "U", "V", "W", "X", "Y", "Z"}

Letters == Lower \cup Upper

\* \w of Python's re for the characters used here
WordChars == Letters \cup Digits \cup {"_"}

\* [A-Za-z0-9._%+-]
EmailLocalChars == Letters \cup Digits \cup {".", "_", "%", "+", "-"}

\* [A-Za-z0-9.-]
EmailDomainChars == Letters \cup Digits \cup {".", "-"}

\* [A-Z|a-z]: the bar inside the class is a literal character
EmailTldChars == Letters \cup {"|"}

\* [-.]
PhoneSeps == {"-", "."}

(***************************************************************************)
(* Python string primitives on texts.                                      *)
(***************************************************************************)
\* text[i] for a 0-based offset i, "" outside the text
CharAt(text, i) == IF i >= 0 /\ i < Len(text) THEN text[i + 1] ELSE ""

\* text[start:end] of Python for 0 <= start, end (clamped to the text)
Slice(text, start, end) ==
    LET e == IF end > Len(text) THEN Len(text) ELSE end
    IN IF start >= e THEN << >> ELSE SubSeq(text, start + 1, e)

\* \b at offset i: exactly one of the neighbours is a word character
WordBoundary(text, i) ==
    (CharAt(text, i - 1) \in WordChars) # (CharAt(text, i) \in WordChars)

\* every character of text[i:i+n] exists and lies in class
AllIn(text, i, n, class) ==
    /\ i + n <= Len(text)
    /\ \A q \in i .. (i + n - 1) : CharAt(text, q) \in class

SetMax(S) == CHOOSE x \in S : \A y \in S : y <= x

SetMin(S) == CHOOSE x \in S : \A y \in S : x <= y

\* the value that stands for "no match at this offset"
NoMatch == 0 - 1

(***************************************************************************)
(* The three patterns: the end offset of the match that starts at offset   *)
(* i, or NoMatch.                                                          *)
(***************************************************************************)
\* \b\d{3}[-.]?\d{3}[-.]?\d{4}\b
PhoneMatchEnd(text, i) ==
    LET a == i + 3
        b == IF CharAt(text, a) \in PhoneSeps THEN a + 1 ELSE a
        c == b + 3
        d == IF CharAt(text, c) \in PhoneSeps THEN c + 1 ELSE c
        e == d + 4
    IN IF /\ WordBoundary(text, i)
          /\ AllIn(text, i, 3, Digits)
          /\ AllIn(text, b, 3, Digits)
          /\ AllIn(text, d, 4, Digits)
          /\ WordBoundary(text, e)
       THEN e ELSE NoMatch

\* \b\d{3}-\d{2}-\d{4}\b
SsnMatchEnd(text, i) ==
    IF /\ WordBoundary(text, i)
       /\ AllIn(text, i, 3, Digits)
       /\ CharAt(text, i + 3) = "-"
       /\ AllIn(text, i + 4, 2, Digits)
       /\ CharAt(text, i + 6) = "-"
       /\ AllIn(text, i + 7, 4, Digits)
       /\ WordBoundary(text, i + 11)
    THEN i + 11 ELSE NoMatch

\* the first offset from i on whose character is not in class
RunEnd(text, i, class) ==
    SetMin({j \in i .. Len(text) : CharAt(text, j) \notin class})

\* \b[A-Za-z0-9._%+-]+@[A-Za-z0-9.-]+\.[A-Z|a-z]{2,}\b
\* The local part is the whole run of local characters from i (a shorter one
\* is followed by a local character, not by @).  The domain and the top-level
\* part are greedy with backtracking: the last dot that works, then the
\* longest top-level part that ends at a word boundary.
EmailMatchEnd(text, i) ==
    IF ~(WordBoundary(text, i) /\ CharAt(text, i) \in EmailLocalChars)
    THEN NoMatch
    ELSE
      LET at == RunEnd(text, i, EmailLocalChars)
      IN IF CharAt(text, at) # "@"
         THEN NoMatch
         ELSE
           LET domEnd == RunEnd(text, at + 1, EmailDomainChars)
               TldEnds(p) == {e \in (p + 3) .. RunEnd(text, p + 1, EmailTldChars) :
                                WordBoundary(text, e)}
               dots == {p \in (at + 2) .. (domEnd - 1) :
                          CharAt(text, p) = "." /\ TldEnds(p) # {}}
           IN IF dots = {} THEN NoMatch ELSE SetMax(TldEnds(SetMax(dots)))

\* re.finditer: the non-overlapping matches, scanned left to right; ends[i]
\* is the end of the match starting at offset i
RECURSIVE FindIter(_, _, _)
FindIter(ends, n, from) ==
    LET cand == {i \in from .. (n - 1) : ends[i] # NoMatch}
    IN IF cand = {} THEN << >>
       ELSE LET s == SetMin(cand)
            IN << [start |-> s, end |-> ends[s]] >> \o FindIter(ends, n, ends[s])

EmailMatches(text) ==
    FindIter([i \in 0 .. (Len(text) - 1) |-> EmailMatchEnd(text, i)], Len(text), 0)

PhoneMatches(text) ==
    FindIter([i \in 0 .. (Len(text) - 1) |-> PhoneMatchEnd(text, i)], Len(text), 0)

SsnMatches(text) ==
    FindIter([i \in 0 .. (Len(text) - 1) |-> SsnMatchEnd(text, i)], Len(text), 0)

\* the entity appended for one match
MatchEntity(text, m, kind, score) ==
    [entity |-> kind, word |-> Slice(text, m.start, m.end),
     start |-> m.start, end |-> m.end, score |-> score]

EmailScore == 90

PhoneScore == 80

SsnScore == 95

fallback_simple_pii_detection(text) ==
    LET em == EmailMatches(text)
        ph == PhoneMatches(text)
        ss == SsnMatches(text)
    IN [k \in 1 .. Len(em) |-> MatchEntity(text, em[k], "email", EmailScore)]
       \o [k \in 1 .. Len(ph) |-> MatchEntity(text, ph[k], "phone number", PhoneScore)]
       \o [k \in 1 .. Len(ss) |-> MatchEntity(text, ss[k], "social security number", SsnScore)]

(***************************************************************************)
(* Module-level configuration.                                             *)
(***************************************************************************)
DEFAULT_LABELS ==
    << <<"p", "e", "r", "s", "o", "n">>,
       <<"o", "r", "g", "a", "n", "i", "z", "a", "t", "i", "o", "n">>,
       <<"a", "d", "d", "r", "e", "s", "s">>,
       <<"e", "m", "a", "i", "l">>,
       <<"p", "h", "o", "n", "e", " ", "n", "u", "m", "b", "e", "r">>,
       <<"s", "o", "c", "i", "a", "l", " ", "s", "e", "c", "u", "r", "i", "t", "y", " ", "n", "u", "m", "b", "e", "r">>,
       <<"c", "r", "e", "d", "i", "t", " ", "c", "a", "r", "d", " ", "n", "u", "m", "b", "e", "r">>,
       <<"p", "a", "s", "s", "p", "o", "r", "t", " ", "n", "u", "m", "b", "e", "r">>,
       <<"d", "r", "i", "v", "e", "r", " ", "l", "i", "c", "e", "n", "s", "e">>,
       <<"b", "a", "n", "k", " ", "a", "c", "c", "o", "u", "n", "t", " ", "n", "u", "m", "b", "e", "r">>,
       <<"d", "a", "t", "e", " ", "o", "f", " ", "b", "i", "r", "t", "h">> >>

max_retries == 3

LoadingSleep == 10

RateLimitSleep == 5

TimeoutSleep == 2

RequestErrorSleep == 2

RequestTimeout == 30

MaxTextLen == 10000

DefaultThreshold == 50

(***************************************************************************)
(* Request normalisation: float(), bool(), split(',') and strip().         *)
(***************************************************************************)
Absent == [kind |-> "absent"]

\* Python truthiness of a JSON field value
Truthy(f) ==
    CASE f.kind = "absent" -> FALSE
      [] f.kind = "null"   -> FALSE
      [] f.kind = "bool"   -> f.v
      [] f.kind = "num"    -> f.v # 0
      [] f.kind = "str"    -> f.v # << >>
      [] OTHER             -> TRUE

\* float(data.get('threshold', 0.5)): the number, or the exception raised
Float(f) ==
    CASE f.kind = "absent" -> [ok |-> TRUE, v |-> DefaultThreshold]
      [] f.kind = "num"    -> [ok |-> TRUE, v |-> f.v]
      [] f.kind = "bool"   -> [ok |-> TRUE, v |-> IF f.v THEN 100 ELSE 0]
      [] f.kind = "null"   -> [ok |-> FALSE, err |-> "TypeError: float() argument must be a string or a number"]
      [] OTHER             -> [ok |-> FALSE, err |-> "ValueError: could not convert string to float"]

\* bool(data.get('use_fallback', True))
Bool(f) == IF f.kind = "absent" THEN TRUE ELSE Truthy(f)

Whitespace == {" ", "\t", "\n"}

\* str.strip()
Strip(s) ==
    LET keep == {i \in 1 .. Len(s) : s[i] \notin Whitespace}
    IN IF keep = {} THEN << >> ELSE SubSeq(s, SetMin(keep), SetMax(keep))

\* str.split(sep) for a one-character separator
RECURSIVE Split(_, _)
Split(s, sep) ==
    LET at == {i \in 1 .. Len(s) : s[i] = sep}
    IN IF at = {} THEN << s >>
       ELSE << SubSeq(s, 1, SetMin(at) - 1) >>
            \o Split(SubSeq(s, SetMin(at) + 1, Len(s)), sep)

\* labels = [label.strip() for label in labels_str.split(',')] or the default
ProcessLabels(labels_str) ==
    IF Truthy(labels_str)
    THEN LET parts == Split(labels_str.v, ",")
         IN [k \in 1 .. Len(parts) |-> Strip(parts[k])]
    ELSE DEFAULT_LABELS

\* mutant of ThresholdOutOfRange: the bounds taken as exclusive
ThresholdOutOfRange_Exclusive(threshold) == ~(0 < threshold /\ threshold < 100)

\* not 0 <= threshold <= 1
ThresholdOutOfRange(threshold) == ~(0 <= threshold /\ threshold <= 100)

TextTooLong(text) == Len(text) > MaxTextLen

(***************************************************************************)
(* The backend's answers to the text txt.  A 200 body is a JSON list (its  *)
(* elements are objects, or something else such as a string), an object or *)
(* a scalar.  An object element carries some of the fields, under either   *)
(* naming; the offsets it carries are those of its word in txt; a score is *)
(* a number or not.                                                        *)
(***************************************************************************)
Num(n) == [num |-> TRUE, v |-> n]

NotANumber == [num |-> FALSE, v |-> 0]

HfRecordFull(txt) ==
    [isdict |-> TRUE,
     f |-> [entity_group |-> "person", word |-> Slice(txt, 0, 2),
            start |-> 0, end |-> 2, score |-> Num(90)]]

HfRecordAltNames(txt) ==
    [isdict |-> TRUE,
     f |-> [label |-> "email", text |-> Slice(txt, 1, 2),
            start |-> 1, end |-> 2, score |-> Num(50)]]

HfRecordBare(txt) ==
    [isdict |-> TRUE, f |-> [word |-> Slice(txt, 0, 2)]]

HfRecordBadScore(txt) ==
    [isdict |-> TRUE,
     f |-> [entity_group |-> "person", word |-> Slice(txt, 0, 2),
            start |-> 0, end |-> 2, score |-> NotANumber]]

\* an element that is no object; f is not looked at
HfNotARecord == [isdict |-> FALSE, f |-> [word |-> << >>]]

HfItems(txt) ==
    {HfRecordFull(txt), HfRecordAltNames(txt), HfRecordBare(txt),
     HfRecordBadScore(txt), HfNotARecord}

MaxRecords == 2

HfLists(txt) ==
    UNION {[1 .. n -> HfItems(txt)] : n \in 0 .. MaxRecords}

HfBodies(txt) ==
    {[kind |-> "list", items |-> l] : l \in HfLists(txt)}
    \cup {[kind |-> "object", items |-> << >>],
          [kind |-> "scalar", items |-> << >>]}

\* statuses the code does not name, with the body text sent along
FatalStatuses == {401, 500}

FatalTexts == {"Invalid credentials", "Internal Server Error"}

(***************************************************************************)
(* Exceptions: str(e) is msg, followed by the status and the body text for *)
(* the "HF API Error" of line 93.                                          *)
(***************************************************************************)
Err(msg) == [msg |-> msg, status |-> 0, text |-> ""]

NoError == Err("")

ErrNoToken == Err("HF_API_TOKEN environment variable not set")

ErrApi(status, text) == [msg |-> "HF API Error", status |-> status, text |-> text]

ErrTimeout == Err("Request timeout after multiple attempts")

ErrRequestFailed == Err("Request failed")

ErrMaxRetries == Err("Max retries exceeded")

ErrInvalidJson == Err("JSONDecodeError")

(***************************************************************************)
(* Normalisation of a 200 body into entities (lines 208-222).              *)
(***************************************************************************)
\* dict.get(key, default)
Get(f, key, default) == IF key \in DOMAIN f THEN f[key] ELSE default

\* entity.get("score", 0)
ScoreOf(item) == Get(item.f, "score", Num(0))

\* what evaluating the comprehension on this element raises, if anything
ItemRaises(item) == ~item.isdict \/ ~ScoreOf(item).num

ItemError(item) ==
    IF ~item.isdict THEN Err("AttributeError: object has no attribute 'get'")
    ELSE Err("TypeError: '>=' not supported")

\* mutant of PassesThreshold: the backend trusted to have applied the threshold
PassesThreshold_NoFilter(item, threshold) == TRUE

\* the filter of the comprehension
PassesThreshold(item, threshold) == ScoreOf(item).v >= threshold

NormalizeEntity(item) ==
    [entity |-> Get(item.f, "entity_group", Get(item.f, "label", "unknown")),
     word   |-> Get(item.f, "word", Get(item.f, "text", << >>)),
     start  |-> Get(item.f, "start", 0),
     end    |-> Get(item.f, "end", 0),
     score  |-> ScoreOf(item).v]

\* the entities built from hf_result, or the exception the comprehension raises
NormalizeHfResult(hf_result, threshold) ==
    IF hf_result.kind = "list"
    THEN LET items == hf_result.items
             bad == {k \in 1 .. Len(items) : ItemRaises(items[k])}
         IN IF bad # {}
            THEN [ok |-> FALSE, entities |-> << >>, err |-> ItemError(items[SetMin(bad)])]
            ELSE LET kept == SelectSeq(items, LAMBDA it : PassesThreshold(it, threshold))
                 IN [ok |-> TRUE,
                     entities |-> [k \in 1 .. Len(kept) |-> NormalizeEntity(kept[k])],
                     err |-> NoError]
    ELSE [ok |-> TRUE, entities |-> << >>, err |-> NoError]

(***************************************************************************)
(* Requests.  get_json() gives a JSON object with the four fields (each    *)
(* possibly absent), gives something falsy ("empty": {} or null), gives a  *)
(* truthy value that is no object ("array"), or raises BadRequest on a     *)
(* body that does not parse ("malformed").                                 *)
(***************************************************************************)
Str(v) == [kind |-> "str", v |-> v]

TextHi == <<"h", "i">>

TextContact ==
    <<"C", "o", "n", "t", "a", "c", "t", " ", "m", "e", " ", "a", "t", " ", "a", "@", "b", ".", "c", "o", "m", " ", "o", "r", " ", "5", "5", "5", "-", "1", "2", "3", "-", "4", "5", "6", "7", ".">>

TextIds ==
    <<"1", "2", "3", "-", "4", "5", "-", "6", "7", "8", "9", " ", "5", "5", "5", ".", "1", "2", "3", ".", "4", "5", "6", "7", " ", "x">>

\* texts at and just over the size limit
TextAtLimit == [i \in 1 .. MaxTextLen |-> " "]

TextOverLimit == [i \in 1 .. (MaxTextLen + 1) |-> " "]

TextFields ==
    {Absent, Str(<< >>), Str(TextHi), Str(TextContact), Str(TextIds)}

\* a text that is a JSON number
TextNumber == [kind |-> "num", v |-> 7]

LabelFields ==
    {Absent, Str(<< >>), Str(<<",">>), Str(<<" ">>),
     Str(<<"p", "e", "r", "s", "o", "n", ",", " ", "e", "m", "a", "i", "l">>)}

ThresholdFields ==
    {Absent, [kind |-> "null"], Str(<<"a", "b", "c">>)}
    \cup {[kind |-> "num", v |-> n] : n \in {-10, 0, 100, 150}}

UseFallbackFields ==
    {Absent, [kind |-> "bool", v |-> TRUE], [kind |-> "bool", v |-> FALSE],
     [kind |-> "null"], Str(<<"f", "a", "l", "s", "e">>)}

True == [kind |-> "bool", v |-> TRUE]

False == [kind |-> "bool", v |-> FALSE]

\* The requests considered: every text with every threshold, the fallback
\* on and off; one text with every form of the labels field and with every
\* form of the use_fallback field; the two texts around the size limit,
\* which the handler tells apart before it looks at anything else (with the
\* fallback off, so that no pattern is run over ten thousand characters),
\* and a text that is no string; and the bodies that give no JSON object.
Requests ==
    [body : {"object"}, text : TextFields, labels : {Absent},
     threshold : ThresholdFields, use_fallback : {True, False}]
    \cup [body : {"object"}, text : {Str(TextContact)}, labels : LabelFields,
          threshold : {Absent}, use_fallback : {False}]
    \cup [body : {"object"}, text : {Str(TextContact)}, labels : {Absent},
          threshold : {Absent}, use_fallback : UseFallbackFields]
    \cup [body : {"object"}, text : {Str(TextAtLimit), Str(TextOverLimit), TextNumber},
          labels : {Absent}, threshold : {Absent}, use_fallback : {False}]
    \cup [body : {"empty", "array", "malformed"}, text : {Absent}, labels : {Absent},
          threshold : {Absent}, use_fallback : {Absent}]

NoRequest ==
    [body |-> "none", text |-> Absent, labels |-> Absent,
     threshold |-> Absent, use_fallback |-> Absent]

(***************************************************************************)
(* Responses: (jsonify(body), status).                                     *)
(***************************************************************************)
NoResponse == [status |-> 0, body |-> [none |-> TRUE]]

Resp400(msg) == [status |-> 400, body |-> [error |-> Err(msg)]]

\* mutant of Resp500: the error response of the error handlers, with no time
Resp500_NoTime(err, t) == [status |-> 500, body |-> [error |-> err]]

Resp500(err, t) == [status |-> 500, body |-> [error |-> err, processing_time |-> t]]

\* mutant of Resp200: method_used left at the value it is initialised with
Resp200_Placeholder(txt, entities, method_used, t) ==
    [status |-> 200,
     body |-> [text |-> txt, entities |-> entities, method_used |-> "unknown",
               processing_time |-> t, entity_count |-> Len(entities)]]

Resp200(txt, entities, method_used, t) ==
    [status |-> 200,
     body |-> [text |-> txt, entities |-> entities, method_used |-> method_used,
               processing_time |-> t, entity_count |-> Len(entities)]]

RECURSIVE SumSeq(_)
SumSeq(q) == IF q = << >> THEN 0 ELSE Head(q) + SumSeq(Tail(q))

\* time.time() - start_time in whole seconds: the sleeps taken and the
\* attempts that ran into the request timeout
ProcessingTime(outs, slps) ==
    SumSeq(slps) + RequestTimeout * Len(SelectSeq(outs, LAMBDA o : o.kind = "timeout"))

(***************************************************************************)
(* Lines 168-197 of extract_pii: the first return or exception, or the     *)
(* normalised locals.                                                      *)
(***************************************************************************)
Parsed(status, err, labels, threshold, use_fallback) ==
    [status |-> status, err |-> err, labels |-> labels,
     threshold |-> threshold, use_fallback |-> use_fallback]

Rejected(status, err) == Parsed(status, err, << >>, 0, FALSE)

ParseRequest(d) ==
    IF d.body = "malformed"
    THEN Rejected(500, Err("400 Bad Request: Failed to decode JSON object"))
    ELSE IF d.body = "empty"
    THEN Rejected(400, Err("No JSON data provided"))
    ELSE IF d.body # "object"
    THEN Rejected(500, Err("AttributeError: object has no attribute 'get'"))
    ELSE IF ~Truthy(d.text)
    THEN Rejected(400, Err("No text provided"))
    ELSE IF d.text.kind # "str"
    THEN Rejected(500, Err("TypeError: object has no len()"))
    ELSE IF TextTooLong(d.text.v)
    THEN Rejected(400, Err("Text too long (max 10,000 characters)"))
    ELSE IF ~Float(d.threshold).ok
    THEN Rejected(500, Err(Float(d.threshold).err))
    ELSE IF ThresholdOutOfRange(Float(d.threshold).v)
    THEN Rejected(400, Err("Threshold must be between 0 and 1"))
    ELSE Parsed(0, NoError, ProcessLabels(d.labels), Float(d.threshold).v,
                Bool(d.use_fallback))

(***************************************************************************)
(* State.                                                                  *)
(***************************************************************************)
VARIABLES
    HF_API_TOKEN,   \* whether the environment gave a token (line 22)
    pc,             \* "idle", "attempt" (in requests.post), "sleep", "done"
    data,           \* the JSON of the request being handled
    labels,         \* locals of extract_pii
    threshold,
    use_fallback,
    attempt,        \* loop variable of query_huggingface_ner
    hf_result,      \* what query_huggingface_ner returned
    hf_error,       \* the exception caught at line 224
    response,       \* what extract_pii returned
    outcomes,       \* history: the outcome of each requests.post of this request
    sleeps,         \* history: the duration of each time.sleep of this request
    queryState,     \* history: "none", "running", "returned", "raised"
    fallbackCalls,  \* history: calls of fallback_simple_pii_detection
    previous,       \* history: an earlier request of this process and its answer
    workers,        \* the worker threads of the server: what each one is doing
    pending         \* the requests accepted by the server and not yet given a thread

vars ==
    << HF_API_TOKEN, pc, data, labels, threshold, use_fallback, attempt, hf_result,
       hf_error, response, outcomes, sleeps, queryState, fallbackCalls,
       previous, workers, pending >>

\* one entry of the history of attempts: how the requests.post ended, with
\* the status and the body text of the response (0 and "" without one)
Outcome(kind, status, body_text) == [kind |-> kind, status |-> status, text |-> body_text]

text == IF data.text.kind = "str" THEN data.text.v ELSE << >>

NoResult == [kind |-> "none", items |-> << >>]

NoPrevious == [none |-> TRUE]

\* serve(app, ..., threads=4): the size of the pool of worker threads
threads == 4

Threads == 1 .. threads

\* a worker thread with no request; one inside extract_pii has pc "attempt"
\* (in requests.post) or "sleep" (in time.sleep) and the loop variable
FreeWorker == [pc |-> "free", attempt |-> 0]

Init ==
    /\ HF_API_TOKEN \in BOOLEAN
    /\ pc = "idle"
    /\ data = NoRequest
    /\ labels = << >>
    /\ threshold = 0
    /\ use_fallback = FALSE
    /\ attempt = 0
    /\ hf_result = NoResult
    /\ hf_error = NoError
    /\ response = NoResponse
    /\ outcomes = << >>
    /\ sleeps = << >>
    /\ queryState = "none"
    /\ fallbackCalls = 0
    /\ previous = NoPrevious
    /\ workers = [t \in Threads |-> FreeWorker]
    /\ pending = << >>

\* mutant of HandleHfError: the fallback taken whatever the flag says
HandleHfError_IgnoresFlag(err, txt, fb, outs, slps) ==
    /\ hf_error' = err
    /\ pc' = "done"
    /\ fallbackCalls' = fallbackCalls + 1
    /\ response' = Resp200(txt, fallback_simple_pii_detection(txt),
                           "fallback_regex", ProcessingTime(outs, slps))

\* mutant of HandleHfError: the fallback's findings not stored in entities
HandleHfError_DropsEntities(err, txt, fb, outs, slps) ==
    /\ hf_error' = err
    /\ pc' = "done"
    /\ IF fb
       THEN /\ fallbackCalls' = fallbackCalls + 1
            /\ response' = Resp200(txt, << >>, "fallback_regex", ProcessingTime(outs, slps))
       ELSE /\ fallbackCalls' = fallbackCalls
            /\ response' = Resp500(err, ProcessingTime(outs, slps))

(***************************************************************************)
(* Lines 224-253: an exception err reaches the handler of line 224 for the *)
(* request with text txt and fallback flag fb, after the attempts outs and *)
(* the sleeps slps.                                                        *)
(***************************************************************************)
HandleHfError(err, txt, fb, outs, slps) ==
    /\ hf_error' = err
    /\ pc' = "done"
    /\ IF fb
       THEN /\ fallbackCalls' = fallbackCalls + 1
            /\ response' = Resp200(txt, fallback_simple_pii_detection(txt),
                                   "fallback_regex", ProcessingTime(outs, slps))
       ELSE /\ fallbackCalls' = fallbackCalls
            /\ response' = Resp500(err, ProcessingTime(outs, slps))

\* query_huggingface_ner raises err
QueryRaises(err, outs) ==
    /\ queryState' = "raised"
    /\ HandleHfError(err, text, use_fallback, outs, sleeps)
    /\ UNCHANGED << attempt, hf_result, sleeps >>

\* mutant of Sleep: exponential backoff, the delay doubled with every attempt
Sleep_Doubled(seconds) ==
    /\ pc' = "sleep"
    /\ sleeps' = Append(sleeps, seconds * (attempt + 1))
    /\ UNCHANGED << attempt, hf_result, hf_error, response, queryState, fallbackCalls >>

\* time.sleep(seconds) before the next attempt
Sleep(seconds) ==
    /\ pc' = "sleep"
    /\ sleeps' = Append(sleeps, seconds)
    /\ UNCHANGED << attempt, hf_result, hf_error, response, queryState, fallbackCalls >>

\* mutant of IsLastAttempt: the bound of the loop off by one
IsLastAttempt_OffByOne == ~(attempt < max_retries)

\* `attempt < max_retries - 1` fails: a retryable outcome is not slept on
IsLastAttempt == ~(attempt < max_retries - 1)

\* mutant of TokenMissing: the check of the token left out
TokenMissing_NotChecked == FALSE

\* `if not HF_API_TOKEN` at the head of query_huggingface_ner
TokenMissing == ~HF_API_TOKEN

(***************************************************************************)
(* POST /api/extract arrives: lines 166-204 and, without a token, line 39  *)
(* and what follows it.                                                    *)
(***************************************************************************)
extract_pii(d) ==
    /\ pc = "idle"
    /\ data' = d
    /\ LET p == ParseRequest(d)
       IN /\ labels' = p.labels
          /\ threshold' = p.threshold
          /\ use_fallback' = p.use_fallback
          /\ IF p.status = 400
             THEN /\ response' = [status |-> 400, body |-> [error |-> p.err]]
                  /\ pc' = "done"
                  /\ UNCHANGED << hf_error, queryState, fallbackCalls >>
             ELSE IF p.status = 500
             THEN /\ response' = Resp500(p.err, 0)
                  /\ pc' = "done"
                  /\ UNCHANGED << hf_error, queryState, fallbackCalls >>
             ELSE IF TokenMissing
             THEN /\ queryState' = "raised"
                  /\ HandleHfError(ErrNoToken, d.text.v, p.use_fallback, << >>, << >>)
             ELSE /\ queryState' = "running"
                  /\ pc' = "attempt"
                  /\ UNCHANGED << hf_error, response, fallbackCalls >>
    /\ UNCHANGED << HF_API_TOKEN, previous, workers, pending, attempt, hf_result, outcomes, sleeps >>

(***************************************************************************)
(* One requests.post and the branch of the loop body it leads to.          *)
(***************************************************************************)
\* lines 72-75, then 205-222 and 234-245
hf_success(body) ==
    /\ pc = "attempt"
    /\ outcomes' = Append(outcomes, Outcome("200", 200, ""))
    /\ hf_result' = body
    /\ queryState' = "returned"
    /\ LET n == NormalizeHfResult(body, threshold)
       IN IF n.ok
          THEN /\ response' = Resp200(text, n.entities, "huggingface_api",
                                      ProcessingTime(outcomes', sleeps))
               /\ pc' = "done"
               /\ UNCHANGED << hf_error, fallbackCalls >>
          ELSE HandleHfError(n.err, text, use_fallback, outcomes', sleeps)
    /\ UNCHANGED << HF_API_TOKEN, previous, workers, pending, data, labels, threshold,
                    use_fallback, attempt, sleeps >>

\* lines 72-73 when response.json() raises: the exception is a
\* RequestException (line 102) or a plain ValueError that leaves the
\* function, depending on the requests library in use
hf_invalid_json(isRequestException) ==
    /\ pc = "attempt"
    /\ outcomes' = Append(outcomes, Outcome("200_invalid_json", 200, ""))
    /\ IF ~isRequestException
       THEN QueryRaises(ErrInvalidJson, outcomes')
       ELSE IF IsLastAttempt
       THEN QueryRaises(ErrRequestFailed, outcomes')
       ELSE Sleep(RequestErrorSleep)
    /\ UNCHANGED << HF_API_TOKEN, previous, workers, pending, data, labels, threshold,
                    use_fallback >>

\* mutant of hf_model_loading: a timeout seen on an earlier attempt decides
\* the error of the call
hf_model_loading_RemembersTimeout ==
    /\ pc = "attempt"
    /\ outcomes' = Append(outcomes, Outcome("503", 503, ""))
    /\ IF IsLastAttempt
       THEN QueryRaises(IF \E i \in 1 .. Len(outcomes) : outcomes[i].kind = "timeout"
                        THEN ErrTimeout ELSE ErrMaxRetries, outcomes')
       ELSE Sleep(LoadingSleep)
    /\ UNCHANGED << HF_API_TOKEN, previous, workers, pending, data, labels, threshold,
                    use_fallback >>

\* lines 77-82, and line 109 after the last attempt
hf_model_loading ==
    /\ pc = "attempt"
    /\ outcomes' = Append(outcomes, Outcome("503", 503, ""))
    /\ IF IsLastAttempt
       THEN QueryRaises(ErrMaxRetries, outcomes')
       ELSE Sleep(LoadingSleep)
    /\ UNCHANGED << HF_API_TOKEN, previous, workers, pending, data, labels, threshold,
                    use_fallback >>

\* mutant of hf_rate_limited: the sleep of the loading branch copied over
hf_rate_limited_LoadingSleep ==
    /\ pc = "attempt"
    /\ outcomes' = Append(outcomes, Outcome("429", 429, ""))
    /\ IF IsLastAttempt
       THEN QueryRaises(ErrMaxRetries, outcomes')
       ELSE Sleep(LoadingSleep)
    /\ UNCHANGED << HF_API_TOKEN, previous, workers, pending, data, labels, threshold,
                    use_fallback >>

\* lines 84-89, and line 109 after the last attempt
hf_rate_limited ==
    /\ pc = "attempt"
    /\ outcomes' = Append(outcomes, Outcome("429", 429, ""))
    /\ IF IsLastAttempt
       THEN QueryRaises(ErrMaxRetries, outcomes')
       ELSE Sleep(RateLimitSleep)
    /\ UNCHANGED << HF_API_TOKEN, previous, workers, pending, data, labels, threshold,
                    use_fallback >>

\* mutant of hf_api_error: the status handled like a request error and retried
hf_api_error_Retried(status, body_text) ==
    /\ pc = "attempt"
    /\ outcomes' = Append(outcomes, Outcome("other", status, body_text))
    /\ IF IsLastAttempt
       THEN QueryRaises(ErrApi(status, body_text), outcomes')
       ELSE Sleep(RequestErrorSleep)
    /\ UNCHANGED << HF_API_TOKEN, previous, workers, pending, data, labels, threshold,
                    use_fallback >>

\* lines 91-93
hf_api_error(status, body_text) ==
    /\ pc = "attempt"
    /\ outcomes' = Append(outcomes, Outcome("other", status, body_text))
    /\ QueryRaises(ErrApi(status, body_text), outcomes')
    /\ UNCHANGED << HF_API_TOKEN, previous, workers, pending, data, labels, threshold,
                    use_fallback >>

\* mutant of hf_timeout: no raise of its own, the loop falls through to line 109
hf_timeout_FallsThrough ==
    /\ pc = "attempt"
    /\ outcomes' = Append(outcomes, Outcome("timeout", 0, ""))
    /\ IF IsLastAttempt
       THEN QueryRaises(ErrMaxRetries, outcomes')
       ELSE Sleep(TimeoutSleep)
    /\ UNCHANGED << HF_API_TOKEN, previous, workers, pending, data, labels, threshold,
                    use_fallback >>

\* lines 95-100
hf_timeout ==
    /\ pc = "attempt"
    /\ outcomes' = Append(outcomes, Outcome("timeout", 0, ""))
    /\ IF IsLastAttempt
       THEN QueryRaises(ErrTimeout, outcomes')
       ELSE Sleep(TimeoutSleep)
    /\ UNCHANGED << HF_API_TOKEN, previous, workers, pending, data, labels, threshold,
                    use_fallback >>

\* lines 102-107
hf_request_exception ==
    /\ pc = "attempt"
    /\ outcomes' = Append(outcomes, Outcome("request_error", 0, ""))
    /\ IF IsLastAttempt
       THEN QueryRaises(ErrRequestFailed, outcomes')
       ELSE Sleep(RequestErrorSleep)
    /\ UNCHANGED << HF_API_TOKEN, previous, workers, pending, data, labels, threshold,
                    use_fallback >>

\* time.sleep returns and `continue` starts the next iteration
sleep_return ==
    /\ pc = "sleep"
    /\ pc' = "attempt"
    /\ attempt' = attempt + 1
    /\ UNCHANGED << HF_API_TOKEN, previous, workers, pending, data, labels, threshold,
                    use_fallback, hf_result, hf_error, response, outcomes, sleeps,
                    queryState, fallbackCalls >>

\* mutant of LocalsGone: the attempt counter kept at module level, so that
\* a request starts where the one before it stopped
LocalsGone_KeepsAttempt ==
    /\ pc' = "idle"
    /\ data' = NoRequest
    /\ labels' = << >>
    /\ threshold' = 0
    /\ use_fallback' = FALSE
    /\ attempt' = attempt
    /\ hf_result' = NoResult
    /\ hf_error' = NoError
    /\ response' = NoResponse
    /\ outcomes' = << >>
    /\ sleeps' = << >>
    /\ queryState' = "none"
    /\ fallbackCalls' = 0

\* extract_pii returns: everything it and query_huggingface_ner worked on is
\* local to the call and is gone; the module-level names are not assigned
LocalsGone ==
    /\ pc' = "idle"
    /\ data' = NoRequest
    /\ labels' = << >>
    /\ threshold' = 0
    /\ use_fallback' = FALSE
    /\ attempt' = 0
    /\ hf_result' = NoResult
    /\ hf_error' = NoError
    /\ response' = NoResponse
    /\ outcomes' = << >>
    /\ sleeps' = << >>
    /\ queryState' = "none"
    /\ fallbackCalls' = 0

\* the response is sent and the next request may come
request_done ==
    /\ pc = "done"
    /\ LocalsGone
    /\ UNCHANGED << HF_API_TOKEN, previous, workers, pending >>

\* the same, with the request and its answer kept for comparison with a
\* later request
request_recorded ==
    /\ pc = "done"
    /\ previous' = [token |-> HF_API_TOKEN, data |-> data, outcomes |-> outcomes,
                    hf_result |-> hf_result, response |-> response]
    /\ LocalsGone
    /\ UNCHANGED << HF_API_TOKEN, workers, pending >>

Next ==
    \/ \E d \in Requests : extract_pii(d)
    \/ \E body \in HfBodies(text) : hf_success(body)
    \/ \E isRequestException \in BOOLEAN : hf_invalid_json(isRequestException)
    \/ hf_model_loading
    \/ hf_rate_limited
    \/ \E status \in FatalStatuses, body_text \in FatalTexts : hf_api_error(status, body_text)
    \/ hf_timeout
    \/ hf_request_exception
    \/ sleep_return
    \/ request_done

Spec == Init /\ [][Next]_vars

(***************************************************************************)
(* One request after another against a backend stub: a few requests and a  *)
(* few answers, and the answer to an earlier request kept.                 *)
(***************************************************************************)
TwiceRequests ==
    [body : {"object"}, text : {Str(TextHi), Str(TextContact)}, labels : {Absent},
     threshold : {Absent}, use_fallback : {True, False}]

TwiceBodies(txt) ==
    {[kind |-> "list", items |-> << >>],
     [kind |-> "list", items |-> << HfRecordFull(txt) >>],
     [kind |-> "list", items |-> << HfNotARecord >>]}

NextTwice ==
    \/ \E d \in TwiceRequests : extract_pii(d)
    \/ \E body \in TwiceBodies(text) : hf_success(body)
    \/ hf_model_loading
    \/ hf_api_error(401, "Invalid credentials")
    \/ hf_timeout
    \/ sleep_return
    \/ request_done
    \/ request_recorded

SpecTwice == Init /\ [][NextTwice]_vars

(***************************************************************************)
(* The server of wsgi.py: waitress accepts every connection on its main    *)
(* thread and queues the request; each of the `threads` worker threads     *)
(* takes one request at a time from the queue and runs the Flask view to   *)
(* its return.  time.sleep and requests.post block the thread they are     *)
(* called on.  Of a request only what occupies the thread is kept.         *)
(***************************************************************************)
RequestKinds == {"health", "extract"}

MaxPending == 2

handlerVars ==
    << HF_API_TOKEN, pc, data, labels, threshold, use_fallback, attempt, hf_result,
       hf_error, response, outcomes, sleeps, queryState, fallbackCalls, previous >>

\* a request arrives and is queued for the worker threads
pool_accept(kind) ==
    /\ Len(pending) < MaxPending
    /\ pending' = Append(pending, kind)
    /\ UNCHANGED << workers, handlerVars >>

\* a free thread takes GET /health from the queue and answers it
pool_health_check(t) ==
    /\ workers[t].pc = "free"
    /\ pending # << >>
    /\ Head(pending) = "health"
    /\ pending' = Tail(pending)
    /\ UNCHANGED << workers, handlerVars >>

\* a free thread takes POST /api/extract from the queue and enters the
\* first requests.post
pool_extract_pii(t) ==
    /\ workers[t].pc = "free"
    /\ pending # << >>
    /\ Head(pending) = "extract"
    /\ pending' = Tail(pending)
    /\ workers' = [workers EXCEPT ![t] = [pc |-> "attempt", attempt |-> 0]]
    /\ UNCHANGED handlerVars

\* lines 77-107: a retryable outcome before the last attempt; the thread
\* goes to sleep
pool_backoff(t) ==
    /\ workers[t].pc = "attempt"
    /\ workers[t].attempt < max_retries - 1
    /\ workers' = [workers EXCEPT ![t].pc = "sleep"]
    /\ UNCHANGED << pending, handlerVars >>

\* time.sleep returns on this thread and the next attempt starts
pool_sleep_return(t) ==
    /\ workers[t].pc = "sleep"
    /\ workers' = [workers EXCEPT ![t] = [pc |-> "attempt", attempt |-> @.attempt + 1]]
    /\ UNCHANGED << pending, handlerVars >>

\* query_huggingface_ner returns or raises, extract_pii builds its response
\* and the thread is free again
pool_respond(t) ==
    /\ workers[t].pc = "attempt"
    /\ workers' = [workers EXCEPT ![t] = FreeWorker]
    /\ UNCHANGED << pending, handlerVars >>

NextPool ==
    \/ \E kind \in RequestKinds : pool_accept(kind)
    \/ \E t \in Threads : pool_health_check(t)
    \/ \E t \in Threads : pool_extract_pii(t)
    \/ \E t \in Threads : pool_backoff(t)
    \/ \E t \in Threads : pool_sleep_return(t)
    \/ \E t \in Threads : pool_respond(t)

SpecPool == Init /\ [][NextPool]_vars

(***************************************************************************)
(* Properties.                                                             *)
(***************************************************************************)
\* query_huggingface_ner was called and is over
QueryOver == queryState \in {"returned", "raised"}

\* at least one attempt was made and every attempt ended this way
AllOutcomes(kind) ==
    /\ outcomes # << >>
    /\ \A i \in 1 .. Len(outcomes) : outcomes[i].kind = kind

Is200 == response.status = 200

\* C1: when the fallback is off and query_huggingface_ner fails, the request
\* ends in an error response that carries that failure, and the fallback
\* detector has not been called.
C1_FailureWithoutFallbackIsAnError ==
    (queryState = "raised" /\ ~use_fallback)
        => /\ pc = "done"
           /\ response.status = 500
           /\ hf_error # NoError
           /\ response.body.error = hf_error
           /\ fallbackCalls = 0

C1_Witness ==
    /\ queryState = "raised"
    /\ ~use_fallback
    /\ Len(outcomes) = 3
    /\ response.status = 500
    /\ response.body.error = ErrMaxRetries

ContactEntities ==
    << [entity |-> "email", word |-> <<"a", "@", "b", ".", "c", "o", "m">>,
        start |-> 14, end |-> 21, score |-> 90],
       [entity |-> "phone number",
        word |-> <<"5", "5", "5", "-", "1", "2", "3", "-", "4", "5", "6", "7">>,
        start |-> 25, end |-> 37, score |-> 80] >>

\* C2: when the fallback is on and query_huggingface_ner fails, the request
\* ends in a 200 result whose method_used is "fallback_regex" and whose
\* entities are what the fallback detector finds in the request's text (for
\* the sample text: the e-mail address and the phone number).
C2_FailureWithFallbackIsAFallbackResult ==
    (queryState = "raised" /\ use_fallback)
        => /\ pc = "done"
           /\ Is200
           /\ response.body.method_used = "fallback_regex"
           /\ response.body.entities = fallback_simple_pii_detection(data.text.v)
           /\ data.text.v = TextContact => response.body.entities = ContactEntities
           /\ fallbackCalls = 1

C2_Witness ==
    /\ queryState = "raised"
    /\ use_fallback
    /\ hf_error = ErrTimeout
    /\ Is200
    /\ response.body.entities = ContactEntities

\* C3: a backend that answers every attempt with 503 is asked exactly 3
\* times: the call is over after the third attempt and not before, and it
\* ends with "Max retries exceeded".
C3_AlwaysLoadingTakesThreeAttempts ==
    AllOutcomes("503")
        => /\ Len(outcomes) <= 3
           /\ QueryOver <=> Len(outcomes) = 3
           /\ QueryOver => queryState = "raised" /\ hf_error = ErrMaxRetries

C3_Witness ==
    /\ AllOutcomes("503")
    /\ Len(outcomes) = 3
    /\ hf_error = ErrMaxRetries

\* C4: an attempt answered with a status other than 200, 503 and 429 is the
\* last one, on whichever attempt it comes: the call fails with the error
\* that carries this status and this body text, and no sleep follows it.
C4_OtherStatusFailsAtOnce ==
    \A i \in 1 .. Len(outcomes) :
        outcomes[i].status \notin {0, 200, 503, 429}
            => /\ i = Len(outcomes)
               /\ pc = "done"
               /\ queryState = "raised"
               /\ hf_error = ErrApi(outcomes[i].status, outcomes[i].text)
               /\ Len(sleeps) = i - 1

C4_Witness ==
    /\ Len(outcomes) = 2
    /\ outcomes[1].kind = "429"
    /\ outcomes[2].status = 401
    /\ hf_error = ErrApi(401, "Invalid credentials")
    /\ sleeps = << 5 >>

\* C5: the i-th sleep follows the i-th attempt and its duration is set by how
\* that attempt ended (10 after 503, 5 after 429, 2 after a timeout); no sleep
\* follows the third attempt, so there are at most 2 sleeps for 3 attempts.
C5_SleepsFollowOutcomes ==
    /\ Len(outcomes) <= 3
    /\ Len(sleeps) <= 2
    /\ Len(sleeps) <= Len(outcomes)
    /\ pc = "sleep" => Len(sleeps) = Len(outcomes)
    /\ Len(outcomes) = 3 => pc = "done" /\ Len(sleeps) = 2
    /\ \A i \in 1 .. Len(sleeps) :
          /\ outcomes[i].kind \notin {"200", "other"}
          /\ outcomes[i].kind = "503" => sleeps[i] = 10
          /\ outcomes[i].kind = "429" => sleeps[i] = 5
          /\ outcomes[i].kind = "timeout" => sleeps[i] = 2

C5_Witness ==
    /\ Len(outcomes) = 3
    /\ outcomes[1].kind = "503"
    /\ outcomes[2].kind = "429"
    /\ outcomes[3].kind = "timeout"
    /\ sleeps = << 10, 5 >>
    /\ pc = "done"

\* C6: when every attempt times out there are exactly 3 attempts, and the
\* call ends with "Request timeout after multiple attempts", not with
\* "Max retries exceeded".
C6_AlwaysTimeoutTakesThreeAttempts ==
    AllOutcomes("timeout")
        => /\ Len(outcomes) <= 3
           /\ QueryOver <=> Len(outcomes) = 3
           /\ QueryOver => /\ queryState = "raised"
                           /\ hf_error = ErrTimeout
                           /\ hf_error # ErrMaxRetries

C6_Witness ==
    /\ AllOutcomes("timeout")
    /\ Len(outcomes) = 3
    /\ hf_error = ErrTimeout
    /\ sleeps = << 2, 2 >>

\* the threshold the request asks for
RequestThreshold == Float(data.threshold).v

\* C7: in a result of the remote path every entity has a score that is at
\* least the request's threshold; a record without a score counts as 0.
C7_RemoteEntitiesReachThreshold ==
    (Is200 /\ response.body.method_used = "huggingface_api")
        => \A k \in 1 .. Len(response.body.entities) :
              response.body.entities[k].score >= RequestThreshold

C7_Witness ==
    /\ Is200
    /\ response.body.method_used = "huggingface_api"
    /\ RequestThreshold = 0
    /\ hf_result.items = << HfRecordBare(text), HfRecordFull(text) >>
    /\ Len(response.body.entities) = 2
    /\ response.body.entities[1].score = 0

\* C8: every entity of a result, remote or fallback, has offsets with
\* 0 <= start < end <= len(text) and text[start:end] == word.
C8_OffsetsDelimitWord ==
    Is200
        => \A k \in 1 .. Len(response.body.entities) :
              LET e == response.body.entities[k]
              IN /\ 0 <= e.start
                 /\ e.start < e.end
                 /\ e.end <= Len(text)
                 /\ Slice(text, e.start, e.end) = e.word

\* the request is one of the malformed or out-of-range ones
Malformed(d) ==
    \/ d.body # "object"
    \/ ~Truthy(d.text)
    \/ d.text.kind = "str" /\ Len(d.text.v) > 10000
    \/ d.threshold.kind \notin {"absent", "num"}
    \/ d.threshold.kind = "num" /\ (d.threshold.v < 0 \/ d.threshold.v > 100)

\* C9: a malformed or out-of-range request is answered with 400, and
\* neither query_huggingface_ner nor the fallback detector is called for it.
C9_MalformedRequestGets400 ==
    (pc = "done" /\ Malformed(data))
        => /\ response.status = 400
           /\ queryState = "none"
           /\ fallbackCalls = 0

\* the request is fine but for its threshold, which is a number or absent
ValidButForThreshold(d) ==
    /\ d.body = "object"
    /\ d.text.kind = "str"
    /\ d.text.v # << >>
    /\ Len(d.text.v) <= 10000
    /\ d.threshold.kind \in {"absent", "num"}

ThresholdRejected ==
    /\ response = Resp400("Threshold must be between 0 and 1")
    /\ queryState = "none"

\* C10: a request that is otherwise valid is rejected for its threshold
\* exactly when the threshold is below 0 or above 1; with 0, with 1 and with
\* no threshold (taken as 0.5) query_huggingface_ner is called.
C10_ThresholdBoundsAreInclusive ==
    (pc # "idle" /\ ValidButForThreshold(data))
        => /\ data.threshold.kind = "num"
                => (ThresholdRejected <=> (data.threshold.v < 0 \/ data.threshold.v > 100))
           /\ data.threshold.kind = "absent" => ~ThresholdRejected /\ threshold = 50
           /\ ~ThresholdRejected
                => /\ queryState # "none"
                   /\ data.threshold.kind = "num" => threshold = data.threshold.v
           /\ response.status = 400 => ThresholdRejected

C10_Witness ==
    /\ data.threshold = [kind |-> "num", v |-> 100]
    /\ threshold = 100
    /\ queryState = "returned"
    /\ Is200

\* C11: the labels handed to query_huggingface_ner are never an empty list
\* and never hold an empty label: 'person, email' gives the two trimmed
\* labels, and a labels field that is absent, empty or made of separators
\* and blanks only gives DEFAULT_LABELS.
C11_LabelsAreNeverEmpty ==
    queryState # "none"
        => /\ labels # << >>
           /\ \A k \in 1 .. Len(labels) : labels[k] # << >>
           /\ data.labels = Str(<<"p", "e", "r", "s", "o", "n", ",", " ", "e", "m", "a", "i", "l">>)
                => labels = << <<"p", "e", "r", "s", "o", "n">>, <<"e", "m", "a", "i", "l">> >>
           /\ data.labels \in {Absent, Str(<< >>), Str(<<",">>), Str(<<" ">>)}
                => labels = DEFAULT_LABELS

\* the backend's body is no sequence of entity records: a JSON object, a
\* scalar, or a list of elements that are no records
NotRecords(body) ==
    \/ body.kind \in {"object", "scalar"}
    \/ /\ body.kind = "list"
       /\ body.items # << >>
       /\ \A k \in 1 .. Len(body.items) : ~body.items[k].isdict

\* C12: when the backend answers 200 with a body that is no sequence of
\* entity records, the request ends as a 200 result with no entities and
\* method_used "huggingface_api": no error is raised and the fallback
\* detector is not called.
C12_NonRecordBodyIsAnEmptySuccess ==
    (queryState = "returned" /\ NotRecords(hf_result))
        => /\ Is200
           /\ response.body.entities = << >>
           /\ response.body.method_used = "huggingface_api"
           /\ hf_error = NoError
           /\ fallbackCalls = 0

\* C13: without a token query_huggingface_ner fails before the first
\* attempt (no attempt, no sleep), and the failure is handled like any
\* other: the fallback's result when use_fallback is true, the error
\* response when it is false.
C13_NoTokenFailsBeforeAnyAttempt ==
    (~HF_API_TOKEN /\ queryState # "none")
        => /\ queryState = "raised"
           /\ pc = "done"
           /\ outcomes = << >>
           /\ sleeps = << >>
           /\ attempt = 0
           /\ hf_error = ErrNoToken
           /\ use_fallback
                => /\ response = Resp200(text, fallback_simple_pii_detection(text),
                                         "fallback_regex", 0)
                   /\ fallbackCalls = 1
           /\ ~use_fallback
                => /\ response = Resp500(ErrNoToken, 0)
                   /\ fallbackCalls = 0

C13_Witness ==
    /\ ~HF_API_TOKEN
    /\ queryState = "raised"
    /\ outcomes = << >>
    /\ use_fallback
    /\ data.text.v = TextIds
    /\ Is200
    /\ Len(response.body.entities) = 2

\* C14: the fallback detector is called only after query_huggingface_ner
\* has ended in failure: not while an attempt or a sleep of the request is
\* pending, and not when query_huggingface_ner returned a result.
C14_FallbackOnlyAfterRemoteFailure ==
    /\ pc \in {"attempt", "sleep"} => fallbackCalls = 0
    /\ queryState \in {"none", "running", "returned"} => fallbackCalls = 0
    /\ fallbackCalls > 0 => queryState = "raised" /\ pc = "done"

\* C15: a backoff sleep holds up only the request it belongs to: whatever
\* the number of requests that are in a sleep, a request the server has
\* accepted finds a thread without one of these sleeps having to end.
C15_SleepsBlockNoOtherRequest ==
    pending # << >> => \E t \in Threads : workers[t].pc # "sleep"

\* an upper bound of the time query_huggingface_ner has taken: no
\* requests.post lasts longer than its timeout
MaxLatency(outs, slps) == RequestTimeout * Len(outs) + SumSeq(slps)

\* C16: query_huggingface_ner makes at most 3 attempts of at most 30
\* seconds and takes at most 2 sleeps of at most 10 seconds, and is over
\* after the third attempt: at most 110 seconds in all.
C16_LatencyIsBounded ==
    /\ Len(outcomes) <= 3
    /\ Len(sleeps) <= 2
    /\ \A i \in 1 .. Len(sleeps) : sleeps[i] <= 10
    /\ Len(outcomes) = 3 => QueryOver
    /\ MaxLatency(outcomes, sleeps) <= 110
    /\ pc = "done" => response.status = 400 \/ response.body.processing_time <= 110

C16_Witness ==
    /\ QueryOver
    /\ Len(outcomes) = 3
    /\ sleeps = << 10, 10 >>
    /\ MaxLatency(outcomes, sleeps) = 110

\* C17: a failure of query_huggingface_ner ends in a 200 result of the
\* fallback detector when use_fallback is true, and otherwise in a 500
\* response with the error message and the processing time; never in a
\* response without processing_time and never in a result that names the
\* remote method.
C17_BackendFailureHasTwoOutcomes ==
    queryState = "raised"
        => /\ pc = "done"
           /\ "processing_time" \in DOMAIN response.body
           /\ response.body.processing_time = ProcessingTime(outcomes, sleeps)
           /\ response.status \in {200, 500}
           /\ response.status = 200 <=> use_fallback
           /\ response.status = 200
                => /\ response.body.method_used = "fallback_regex"
                   /\ response.body.method_used # "huggingface_api"
           /\ response.status = 500
                => /\ DOMAIN response.body = {"error", "processing_time"}
                   /\ response.body.error = hf_error
                   /\ response.body.error.msg # ""

C17_Witness ==
    /\ queryState = "raised"
    /\ ~use_fallback
    /\ outcomes = << Outcome("timeout", 0, ""), Outcome("other", 500, "Internal Server Error") >>
    /\ response = Resp500(ErrApi(500, "Internal Server Error"), 32)

IsPrefix(a, b) ==
    /\ Len(a) <= Len(b)
    /\ \A i \in 1 .. Len(a) : a[i] = b[i]

\* the request being answered is the recorded one again, and the backend
\* has answered as it did then: of the two sequences of answers one begins
\* with the other, and a 200 answer has the same body
SameRequestSameAnswers ==
    /\ previous # NoPrevious
    /\ pc = "done"
    /\ data = previous.data
    /\ IsPrefix(outcomes, previous.outcomes) \/ IsPrefix(previous.outcomes, outcomes)
    /\ hf_result = NoResult \/ previous.hf_result = NoResult
          \/ hf_result = previous.hf_result

C19_ThirdAttemptDecidesTheError ==
    /\ (QueryOver /\ Len(outcomes) = 3)
        => /\ outcomes[3].kind = "timeout"
                => queryState = "raised" /\ hf_error = ErrTimeout
           /\ outcomes[3].kind \in {"503", "429"}
                => queryState = "raised" /\ hf_error = ErrMaxRetries
    /\ \A k \in 1 .. Len(outcomes) :
          outcomes[k].kind = "200"
              => /\ k = Len(outcomes)
                 /\ queryState = "returned"
                 /\ hf_result # NoResult
                 /\ attempt = k - 1
                 /\ Len(sleeps) = k - 1

C19_Witness ==
    /\ QueryOver
    /\ Len(outcomes) = 3
    /\ outcomes[1].kind = "timeout"
    /\ outcomes[2].kind = "timeout"
    /\ outcomes[3].kind = "503"
    /\ hf_error = ErrMaxRetries

\* C20: a 200 result has entity_count = len(entities) and a method_used
\* that is "huggingface_api" or "fallback_regex", never "unknown"; it is
\* "huggingface_api" only if an attempt was answered with success, and
\* "fallback_regex" only if the remote path ended in an exception.
C20_ResultNamesItsMethod ==
    Is200
        => /\ response.body.entity_count = Len(response.body.entities)
           /\ response.body.method_used \in {"huggingface_api", "fallback_regex"}
           /\ response.body.method_used # "unknown"
           /\ response.body.method_used = "huggingface_api"
                => /\ \E i \in 1 .. Len(outcomes) : outcomes[i].kind = "200"
                   /\ queryState = "returned"
                   /\ hf_error = NoError
           /\ response.body.method_used = "fallback_regex"
                => /\ hf_error # NoError
                   /\ fallbackCalls = 1

C20_Witness ==
    /\ Is200
    /\ response.body.method_used = "fallback_regex"
    /\ hf_error = ErrRequestFailed
    /\ response.body.entity_count = 2
    /\ Len(response.body.entities) = 2

====
